---- MODULE Spec2Model ----
(***************************************************************************)
(* Ancestor resolution of go-filecoin's chain package                      *)
(* (chain/get_ancestors.go): GetRecentAncestors and its two collectors,    *)
(* CollectTipSetsOfHeightAtLeast and CollectAtMostNTipSets, and            *)
(* FindCommonAncestor with its helper iterToHeightOrLower, all driving the *)
(* backward-walking TipsetIterator over a chain store.                     *)
(*                                                                         *)
(* A tipset is named by its key, a number of 1..NumTipSets; 0 is the empty *)
(* tipset / empty key.  The store gives every tipset a height and a parent *)
(* key; GetTipSet fails on the keys of `failing`.                          *)
(*                                                                         *)
(* Beside it, the storage-market power view (marketView: Total, Miner,     *)
(* HasPower) over a state tree of actors.                                  *)
(***************************************************************************)
EXTENDS Integers, Sequences, FiniteSets, TLC

\* ------------------------------------------------------------------ bounds
NumTipSets == 4
\* heights of the single chain GetRecentAncestors and the collectors walk
MaxHeight == 5
\* heights of the forked stores FindCommonAncestor walks
MaxForkHeight == 3
MaxRounds == 1
MaxLookback == 2
MaxN == 2
\* the miners of the state tree, and the storage quantities an actor holds:
\* multiples of PowerUnit, of which 100 takes one LEB128 byte and 200 two
NumMiners == 2
MaxPower == 2
PowerUnit == 100

\* ------------------------------------------------------- program constants
\* types.TipSet{} : the empty tipset, which is also what a complete iterator
\* holds, and (as a key) the empty parent set of a parentless tipset.
UndefTipSet == 0
\* uint64 arithmetic wraps.  TLC's integers are 32 bits wide, so the modulus
\* 2^64 is scaled to 2^30: it stays far above every height of the model, and
\* the only wrap the code can make is that of 0 - 1 to the largest value.
UintModulus == 2^30

TipSets == 1..NumTipSets

\* address.StorageMarketAddress, and the addresses of the miners
StorageMarketAddress == 0
Addresses == 0..NumMiners
\* The quantity an actor's storage holds; the last one is 2^64 at the scale
\* of UintModulus, which no uint64 holds.
Powers == {p * PowerUnit : p \in 0..MaxPower} \cup {UintModulus}
\* The state tree has no (readable) actor storage at the address.
NoActor == -1

VARIABLES
  height,      \* store: height of every tipset
  parent,      \* store: parent key of every tipset (UndefTipSet: no parents)
  failing,     \* store: the keys on which ChainReader.GetTipSet fails
  cancelled,   \* the caller's context is cancelled
  op,          \* the top-level function called
  args,        \* its arguments
  pc,          \* the position of the call
  iterator,    \* value of the collectors' TipsetIterator (UndefTipSet: complete)
  oldIter,     \* FindCommonAncestor: value of oldIter
  newIter,     \* FindCommonAncestor: value of newIter
  ret,         \* the slice a collector accumulates / returns
  err,         \* the err local of a collector / the error it returns
  i,           \* CollectAtMostNTipSets: loop counter
  provingPeriodAncestors, \* GetRecentAncestors: result of step 1
  result,      \* what the top-level call returned: [ts, err]
  reads,       \* number of ChainReader.GetTipSet calls made
  nexts,       \* number of TipsetIterator.Next calls made
  actors,      \* state tree: the storage quantity of every actor, or NoActor
  view         \* marketView: what Total / Miner returned, and HasPower

vars == <<height, parent, failing, cancelled, op, args, pc, iterator, oldIter,
          newIter, ret, err, i, provingPeriodAncestors, result, reads, nexts,
          actors, view>>

store == <<height, parent, failing>>
market == <<actors, view>>

\* errors
errIterComplete == "unexpected complete iterator"
errLookback == "lookback must be greater than 0"
errStore == "store error"
errContext == "context canceled"
errEmptyTipSet == "empty tipset"
errIndexOutOfRange == "panic: index out of range"
\* the error of state.Tree.GetActorStorage
errActorStorage == "actor storage error"

\* ------------------------------------------------------- TipsetIterator
\* IterAncestors(ctx, store, start): an iterator whose value is start.
IterAncestors(start) == start

Complete(it) == it = UndefTipSet

Value(it) == it

\* One Next() on an iterator whose value is `it` (not complete): the set of
\* its possible outcomes [value, err, reads].  The context is checked first;
\* an empty parent key completes the iterator without a read; otherwise the
\* parent key is read from the store.  After a failed read the position is
\* undefined: any tipset, or complete.
TipsetIteratorNext(it) ==
  IF cancelled
    THEN {[value |-> it, err |-> errContext, reads |-> 0]}
    ELSE IF parent[it] = UndefTipSet
      THEN {[value |-> UndefTipSet, err |-> "nil", reads |-> 0]}
      ELSE IF parent[it] \in failing
        THEN {[value |-> v, err |-> errStore, reads |-> 1] :
                v \in TipSets \cup {UndefTipSet}}
        ELSE {[value |-> parent[it], err |-> "nil", reads |-> 1]}

\* ------------------------------------------------------------------- Init
NoArgs == [none |-> 0]
NoResult == [ts |-> <<>>, err |-> "none"]
NoView == [numBytes |-> 0, err |-> "none", hasPower |-> FALSE]

\* A chain store: parent links lead to a tipset named earlier, and heights
\* strictly decrease along them, down to a parentless root of any height.
\* Tipsets are named in an order of non-decreasing height (every store has
\* such a naming; the code never looks at a name but to compare two).
\* GetTipSet fails on one key at most: each of the functions returns on the
\* first key whose read fails, or reads nothing after it but that same key.
StoreOK ==
  /\ \A t \in TipSets : parent[t] < t
  /\ \A t \in TipSets : parent[t] # UndefTipSet => height[parent[t]] < height[t]
  /\ \A t \in 1..(NumTipSets - 1) : height[t] <= height[t + 1]
  /\ Cardinality(failing) <= 1

\* The tipsets reachable from t by parent links, t itself included.
RECURSIVE Ancestors(_)
Ancestors(t) == IF t = UndefTipSet THEN {} ELSE {t} \cup Ancestors(parent[t])

NoCall ==
  /\ cancelled = FALSE
  /\ op = "none"
  /\ args = NoArgs
  /\ pc = "idle"
  /\ iterator = UndefTipSet
  /\ oldIter = UndefTipSet
  /\ newIter = UndefTipSet
  /\ ret = <<>>
  /\ err = "nil"
  /\ i = 0
  /\ provingPeriodAncestors = <<>>
  /\ result = NoResult
  /\ reads = 0
  /\ nexts = 0
  /\ view = NoView

\* GetRecentAncestors and the collectors follow the parent links of one
\* tipset only: their store is a single chain, tipset 1 its parentless root,
\* with null rounds wherever two consecutive heights differ by more than 1.
Init ==
  /\ parent = [t \in TipSets |-> t - 1]
  /\ height \in [TipSets -> 0..MaxHeight]
  /\ failing \in SUBSET TipSets
  /\ StoreOK
  /\ actors = [a \in Addresses |-> NoActor]
  /\ NoCall

\* FindCommonAncestor walks two chains: its store is any forest.
ForkInit ==
  /\ parent \in [TipSets -> 0..NumTipSets]
  /\ \A t \in TipSets : parent[t] < t
  /\ height \in [TipSets -> 0..MaxForkHeight]
  /\ failing \in SUBSET TipSets
  /\ StoreOK
  /\ actors = [a \in Addresses |-> NoActor]
  /\ NoCall

\* The caller cancels the context, at any moment before the call returns.
Cancel ==
  /\ pc # "done"
  /\ ~cancelled
  /\ cancelled' = TRUE
  /\ UNCHANGED <<store, market, op, args, pc, iterator, oldIter, newIter, ret, err, i,
                 provingPeriodAncestors, result, reads, nexts>>

\* The top-level call returns (ts, e).
Return(ts, e) ==
  /\ result' = [ts |-> ts, err |-> e]
  /\ pc' = "done"

\* --------------------------------------------------- GetRecentAncestors
\* Mutant of earliestAncestorHeight: the subtraction is made in unsigned
\* arithmetic and wraps instead of being raised to 0.
earliestAncestorHeightWrapped(childBH, ancestorRoundsNeeded) ==
  (childBH + UintModulus - ancestorRoundsNeeded) % UintModulus

\* earliestAncestorHeight := childBH.Sub(ancestorRoundsNeeded), raised to 0
\* when negative (BlockHeight is a big integer: the difference does not wrap).
earliestAncestorHeight(childBH, ancestorRoundsNeeded) ==
  IF childBH - ancestorRoundsNeeded < 0 THEN 0 ELSE childBH - ancestorRoundsNeeded

\* minHeight of the running CollectTipSetsOfHeightAtLeast
minHeight ==
  IF op = "GetRecentAncestors"
    THEN earliestAncestorHeight(args.childBH, args.ancestorRoundsNeeded)
    ELSE args.minHeight

\* n of the running CollectAtMostNTipSets
n == IF op = "GetRecentAncestors" THEN args.lookback ELSE args.n

\* Mutant of lookbackRejected: the check never rejects.
lookbackNeverRejected(lookback) == lookback < 0

\* Line 57: if lookback == 0
lookbackRejected(lookback) == lookback = 0

\* Lines 53-67: the lookback check, the height threshold, and the iterator
\* of step 1.
GetRecentAncestors(base, childBH, ancestorRoundsNeeded, lookback) ==
  /\ pc = "idle"
  /\ op' = "GetRecentAncestors"
  /\ args' = [base |-> base, childBH |-> childBH,
              ancestorRoundsNeeded |-> ancestorRoundsNeeded, lookback |-> lookback]
  /\ IF lookbackRejected(lookback)
       THEN /\ Return(<<>>, errLookback)
            /\ UNCHANGED <<iterator, nexts>>
       ELSE /\ iterator' = IterAncestors(base)
            /\ nexts' = 0
            /\ pc' = "CollectTipSetsOfHeightAtLeast"
            /\ UNCHANGED result
  /\ UNCHANGED <<store, market, cancelled, oldIter, newIter, ret, err, i,
                 provingPeriodAncestors, reads>>

\* A collector returns (ts, e): to its caller when GetRecentAncestors runs
\* it, as the result of the call when it was called directly.
CollectorReturn(ts, e, continuation) ==
  IF op = "GetRecentAncestors"
    THEN /\ ret' = ts
         /\ err' = e
         /\ pc' = continuation
         /\ UNCHANGED result
    ELSE /\ Return(ts, e)
         /\ UNCHANGED <<ret, err>>

\* Direct call of CollectTipSetsOfHeightAtLeast(ctx, iterator, minHeight).
CallCollectTipSetsOfHeightAtLeast(start, mh) ==
  /\ pc = "idle"
  /\ op' = "CollectTipSetsOfHeightAtLeast"
  /\ args' = [start |-> start, minHeight |-> mh]
  /\ iterator' = start
  /\ pc' = "CollectTipSetsOfHeightAtLeast"
  /\ UNCHANGED <<store, market, cancelled, oldIter, newIter, ret, err, i,
                 provingPeriodAncestors, result, reads, nexts>>

\* Line 100: the loop condition !iterator.Complete()
collectWhile(it) == ~Complete(it)

\* Mutant of belowMinHeight: a tipset at minHeight exactly is left out.
belowOrAtMinHeight(h, mh) == h <= mh

\* Line 108: types.NewBlockHeight(h).LessThan(minHeight)
belowMinHeight(h, mh) == h < mh

\* Lines 100-113: one turn of the for loop: its condition, its body, and
\* its post statement err = iterator.Next().
CollectTipSetsOfHeightAtLeast ==
  /\ pc = "CollectTipSetsOfHeightAtLeast"
  /\ IF ~collectWhile(iterator)
       THEN /\ CollectorReturn(ret, "nil", "GetRecentAncestorsStep2")
            /\ UNCHANGED <<iterator, reads, nexts>>
       ELSE IF err # "nil"
         THEN /\ CollectorReturn(<<>>, err, "GetRecentAncestorsStep2")
              /\ UNCHANGED <<iterator, reads, nexts>>
         ELSE IF belowMinHeight(height[Value(iterator)], minHeight)
           THEN /\ CollectorReturn(ret, "nil", "GetRecentAncestorsStep2")
                /\ UNCHANGED <<iterator, reads, nexts>>
           ELSE \E o \in TipsetIteratorNext(iterator) :
                  /\ ret' = Append(ret, Value(iterator))
                  /\ err' = o.err
                  /\ iterator' = o.value
                  /\ reads' = reads + o.reads
                  /\ nexts' = nexts + 1
                  /\ UNCHANGED <<pc, result>>
  /\ UNCHANGED <<store, market, cancelled, op, args, oldIter, newIter, i,
                 provingPeriodAncestors>>

\* Mutant of noParents: an empty parent key is not recognised.
noParentsMissed(key) == FALSE

\* Line 77: firstExtraRandomnessAncestorsCids.Len() == 0
noParents(key) == key = UndefTipSet

\* Lines 69-86: the result of step 1, the parent key of its last tipset, the
\* read of the lookback base, and the iterator of step 2.
GetRecentAncestorsStep2 ==
  /\ pc = "GetRecentAncestorsStep2"
  /\ IF err # "nil"
       THEN /\ Return(<<>>, err)
            /\ UNCHANGED <<iterator, ret, i, provingPeriodAncestors, reads, nexts>>
       ELSE IF Len(ret) = 0
         THEN /\ Return(<<>>, errIndexOutOfRange)
              /\ UNCHANGED <<iterator, ret, i, provingPeriodAncestors, reads, nexts>>
         ELSE LET firstExtraRandomnessAncestorsCids == parent[ret[Len(ret)]] IN
           IF noParents(firstExtraRandomnessAncestorsCids)
             THEN /\ Return(ret, "nil")
                  /\ UNCHANGED <<iterator, ret, i, provingPeriodAncestors, reads, nexts>>
             ELSE /\ reads' = reads + 1
                  /\ IF firstExtraRandomnessAncestorsCids \in failing
                       THEN /\ Return(<<>>, errStore)
                            /\ UNCHANGED <<iterator, ret, i, provingPeriodAncestors, nexts>>
                       ELSE /\ provingPeriodAncestors' = ret
                            /\ iterator' = IterAncestors(firstExtraRandomnessAncestorsCids)
                            /\ nexts' = 0
                            /\ ret' = <<>>
                            /\ i' = 0
                            /\ pc' = "CollectAtMostNTipSets"
                            /\ UNCHANGED result
  /\ UNCHANGED <<store, market, cancelled, op, args, oldIter, newIter, err>>

\* Direct call of CollectAtMostNTipSets(ctx, iterator, n).
CallCollectAtMostNTipSets(start, num) ==
  /\ pc = "idle"
  /\ op' = "CollectAtMostNTipSets"
  /\ args' = [start |-> start, n |-> num]
  /\ iterator' = start
  /\ pc' = "CollectAtMostNTipSets"
  /\ UNCHANGED <<store, market, cancelled, oldIter, newIter, ret, err, i,
                 provingPeriodAncestors, result, reads, nexts>>

\* Mutant of collectMore: one tipset too many is collected.
collectOneMore(k, num, it) == k <= num /\ ~Complete(it)

\* Line 121: the loop condition i < n && !iterator.Complete()
collectMore(k, num, it) == k < num /\ ~Complete(it)

\* Mutant of abortedCollection: the tipsets collected so far are returned
\* with the error.
abortedPartial(collected) == collected

\* Line 124: return nil, err
abortedCollection(collected) == <<>>

\* Lines 121-127: one turn of the for loop, or its exit.
CollectAtMostNTipSets ==
  /\ pc = "CollectAtMostNTipSets"
  /\ IF collectMore(i, n, iterator)
       THEN \E o \in TipsetIteratorNext(iterator) :
              /\ reads' = reads + o.reads
              /\ nexts' = nexts + 1
              /\ iterator' = o.value
              /\ IF o.err # "nil"
                   THEN /\ CollectorReturn(
                             abortedCollection(Append(ret, Value(iterator))),
                             o.err, "GetRecentAncestorsReturn")
                        /\ UNCHANGED i
                   ELSE /\ ret' = Append(ret, Value(iterator))
                        /\ i' = i + 1
                        /\ UNCHANGED <<pc, err, result>>
       ELSE /\ CollectorReturn(ret, "nil", "GetRecentAncestorsReturn")
            /\ UNCHANGED <<iterator, i, reads, nexts>>
  /\ UNCHANGED <<store, market, cancelled, op, args, oldIter, newIter,
                 provingPeriodAncestors>>

\* Mutant of appendAncestors: the two parts are joined the wrong way round.
appendSwapped(ppa, era) == era \o ppa

\* Line 91: append(provingPeriodAncestors, extraRandomnessAncestors...)
appendAncestors(ppa, era) == ppa \o era

\* Lines 87-91: the result of step 2 and the concatenation.
GetRecentAncestorsReturn ==
  /\ pc = "GetRecentAncestorsReturn"
  /\ IF err # "nil"
       THEN Return(<<>>, err)
       ELSE Return(appendAncestors(provingPeriodAncestors, ret), "nil")
  /\ UNCHANGED <<store, market, cancelled, op, args, iterator, oldIter, newIter, ret,
                 err, i, provingPeriodAncestors, reads, nexts>>

\* --------------------------------------------------- FindCommonAncestor
\* The call reads the ancestors of its two starts and nothing else.  The
\* tipsets off both chains are kept parentless and at the top height, so
\* that a pair of chains is walked once, not once for every arrangement of
\* the tipsets the call never reads.
SpareTipSetsIdle(old, new) ==
  \A t \in TipSets \ (Ancestors(old) \cup Ancestors(new)) :
    parent[t] = UndefTipSet /\ height[t] = MaxForkHeight

\* Direct call of FindCommonAncestor(oldIter, newIter).
CallFindCommonAncestor(old, new) ==
  /\ pc = "idle"
  /\ SpareTipSetsIdle(old, new)
  /\ op' = "FindCommonAncestor"
  /\ args' = [old |-> old, new |-> new]
  /\ oldIter' = old
  /\ newIter' = new
  /\ pc' = "FindCommonAncestor"
  /\ UNCHANGED <<store, market, cancelled, iterator, ret, err, i,
                 provingPeriodAncestors, result, reads, nexts>>

\* Mutant of reachedHeight: the iterator stops at endHeight only, and walks
\* past a null round at that height.
reachedExactHeight(h, endHeight) == h = endHeight

\* Mutant of reachedHeight: the iterator is moved strictly below endHeight.
reachedBelowHeight(h, endHeight) == h < endHeight

\* Line 190: height <= endHeight
reachedHeight(h, endHeight) == h <= endHeight

\* Mutant of nextError: a failed advance is reported as an exhausted
\* iterator.
nextErrorAsComplete(e) == errIterComplete

\* Lines 193-195: the error of iter.Next() is returned as it is.
nextError(e) == e

\* Lines 180-198: the outcomes [value, err, reads, nexts] of
\* iterToHeightOrLower on an iterator whose value is `it`, after rd reads
\* and nx advances.
RECURSIVE iterToHeightOrLower(_, _, _, _)
iterToHeightOrLower(it, endHeight, rd, nx) ==
  IF Complete(it)
    THEN {[value |-> it, err |-> errIterComplete, reads |-> rd, nexts |-> nx]}
    ELSE IF reachedHeight(height[Value(it)], endHeight)
      THEN {[value |-> it, err |-> "nil", reads |-> rd, nexts |-> nx]}
      ELSE UNION {
             IF o.err # "nil"
               THEN {[value |-> o.value, err |-> nextError(o.err),
                      reads |-> rd + o.reads, nexts |-> nx + 1]}
               ELSE iterToHeightOrLower(o.value, endHeight, rd + o.reads, nx + 1) :
             o \in TipsetIteratorNext(it)}

\* Lines 166, 169: h - uint64(1), in unsigned arithmetic
oneLower(h) == (h + UintModulus - 1) % UintModulus

\* Mutant of Equals: the two values are compared by identity, which the
\* values of two iterators never share.
EqualsByIdentity(old, new) == FALSE

\* Line 148: old.Equals(new)
Equals(old, new) == old = new

\* Lines 135-150: the head of the loop: the two values and their heights
\* (Height() fails on the empty tipset a complete iterator holds), and the
\* test for a common ancestor.
FindCommonAncestor ==
  /\ pc = "FindCommonAncestor"
  /\ IF Complete(oldIter) \/ Complete(newIter)
       THEN Return(<<>>, errEmptyTipSet)
       ELSE IF Equals(Value(oldIter), Value(newIter))
         THEN Return(<<Value(oldIter)>>, "nil")
         ELSE /\ pc' = "FindCommonAncestorAdvance"
              /\ UNCHANGED result
  /\ UNCHANGED <<store, market, cancelled, op, args, iterator, oldIter, newIter, ret,
                 err, i, provingPeriodAncestors, reads, nexts>>

\* Mutant of AdvanceEnd: the error of iterToHeightOrLower is not looked at.
AdvanceEndUnchecked(e) ==
  /\ pc' = "FindCommonAncestor"
  /\ UNCHANGED result

\* After an iterToHeightOrLower that returned e: return its error, or loop.
AdvanceEnd(e) ==
  IF e # "nil"
    THEN Return(<<>>, e)
    ELSE /\ pc' = "FindCommonAncestor"
         /\ UNCHANGED result

\* Lines 157-172: the update of one pointer, or of both.
FindCommonAncestorAdvance ==
  /\ pc = "FindCommonAncestorAdvance"
  /\ LET oldHeight == height[Value(oldIter)]
         newHeight == height[Value(newIter)]
     IN IF oldHeight < newHeight
          THEN \E o \in iterToHeightOrLower(newIter, oldHeight, 0, 0) :
                 /\ newIter' = o.value
                 /\ reads' = reads + o.reads
                 /\ nexts' = nexts + o.nexts
                 /\ AdvanceEnd(o.err)
                 /\ UNCHANGED oldIter
          ELSE IF newHeight < oldHeight
            THEN \E o \in iterToHeightOrLower(oldIter, newHeight, 0, 0) :
                   /\ oldIter' = o.value
                   /\ reads' = reads + o.reads
                   /\ nexts' = nexts + o.nexts
                   /\ AdvanceEnd(o.err)
                   /\ UNCHANGED newIter
            ELSE \E o \in iterToHeightOrLower(oldIter, oneLower(oldHeight), 0, 0) :
                   /\ oldIter' = o.value
                   /\ IF o.err # "nil"
                        THEN /\ reads' = reads + o.reads
                             /\ nexts' = nexts + o.nexts
                             /\ AdvanceEnd(o.err)
                             /\ UNCHANGED newIter
                        ELSE \E q \in iterToHeightOrLower(newIter, oneLower(newHeight),
                                                           o.reads, o.nexts) :
                               /\ newIter' = q.value
                               /\ reads' = reads + q.reads
                               /\ nexts' = nexts + q.nexts
                               /\ AdvanceEnd(q.err)
  /\ UNCHANGED <<store, market, cancelled, op, args, iterator, ret, err, i,
                 provingPeriodAncestors>>

\* ------------------------------------------------------------ marketView
\* BytesAmount.Bytes(): the unsigned LEB128 encoding of the quantity, seven
\* bits a byte from the lowest, the top bit set on all bytes but the last.
RECURSIVE Bytes(_)
Bytes(q) ==
  IF q < 128 THEN <<q>> ELSE <<128 + (q % 128)>> \o Bytes(q \div 128)

\* leb128.ToUInt64: the bytes from position k on, decoded at weight w, up to
\* the first byte whose top bit is clear.
RECURSIVE DecodeFrom(_, _, _)
DecodeFrom(bytes, k, w) ==
  IF k > Len(bytes)
    THEN 0
    ELSE (bytes[k] % 128) * w
         + (IF bytes[k] >= 128 THEN DecodeFrom(bytes, k + 1, w * 128) ELSE 0)

\* leb128.ToUInt64(bytes), in a uint64
ToUInt64(bytes) == DecodeFrom(bytes, 1, 1) % UintModulus

\* st.GetActorStorage(ctx, addr, &storage): the error it returns
GetActorStorage(addr) ==
  IF actors[addr] = NoActor THEN errActorStorage ELSE "nil"

\* Lines 39-46: Total returns (uint64, error).
Total ==
  IF GetActorStorage(StorageMarketAddress) # "nil"
    THEN [numBytes |-> 0, err |-> GetActorStorage(StorageMarketAddress)]
    ELSE [numBytes |-> ToUInt64(Bytes(actors[StorageMarketAddress])),
          err |-> "nil"]

\* Lines 52-59: Miner returns (uint64, error).
Miner(mAddr) ==
  IF GetActorStorage(mAddr) # "nil"
    THEN [numBytes |-> 0, err |-> GetActorStorage(mAddr)]
    ELSE [numBytes |-> ToUInt64(Bytes(actors[mAddr])), err |-> "nil"]

\* Mutant of hasPower: the byte count is not tested against 0.
hasPowerWithoutZeroTest(numBytes, e) == e = "nil"

\* Lines 65-68: false if err != nil || numBytes == uint64(0), else true
hasPower(numBytes, e) ==
  IF e # "nil" \/ numBytes = 0 THEN FALSE ELSE TRUE

\* A call of one of the three functions of the view, which returns at once.
ViewCall(name, a, v) ==
  /\ pc = "idle"
  /\ op' = name
  /\ args' = a
  /\ view' = v
  /\ pc' = "done"
  /\ UNCHANGED <<store, actors, cancelled, iterator, oldIter, newIter, ret,
                 err, i, provingPeriodAncestors, result, reads, nexts>>

CallTotal ==
  ViewCall("Total", NoArgs,
           [numBytes |-> Total.numBytes, err |-> Total.err, hasPower |-> FALSE])

CallMiner(mAddr) ==
  ViewCall("Miner", [mAddr |-> mAddr],
           [numBytes |-> Miner(mAddr).numBytes, err |-> Miner(mAddr).err,
            hasPower |-> FALSE])

\* Lines 63-69: HasPower; view keeps what its call of Miner returned.
HasPower(mAddr) ==
  LET m == Miner(mAddr)
  IN ViewCall("HasPower", [mAddr |-> mAddr],
              [numBytes |-> m.numBytes, err |-> m.err,
               hasPower |-> hasPower(m.numBytes, m.err)])

\* The state tree is any assignment of storage to the actors; the chain
\* store is not used.
PowerInit ==
  /\ parent = [t \in TipSets |-> t - 1]
  /\ height = [t \in TipSets |-> t - 1]
  /\ failing = {}
  /\ actors \in [Addresses -> Powers \cup {NoActor}]
  /\ NoCall

\* ------------------------------------------------------- specifications
Next ==
  \/ Cancel
  \/ \E base \in TipSets, childBH \in 0..MaxHeight,
        ancestorRoundsNeeded \in 0..MaxRounds, lookback \in 0..MaxLookback :
       GetRecentAncestors(base, childBH, ancestorRoundsNeeded, lookback)
  \/ \E start \in TipSets \cup {UndefTipSet}, mh \in 0..(MaxHeight + 1) :
       CallCollectTipSetsOfHeightAtLeast(start, mh)
  \/ CollectTipSetsOfHeightAtLeast
  \/ GetRecentAncestorsStep2
  \/ \E start \in TipSets \cup {UndefTipSet}, num \in 0..MaxN :
       CallCollectAtMostNTipSets(start, num)
  \/ CollectAtMostNTipSets
  \/ GetRecentAncestorsReturn

Spec == Init /\ [][Next]_vars

ForkNext ==
  \/ Cancel
  \/ \E old \in TipSets \cup {UndefTipSet}, new \in TipSets \cup {UndefTipSet} :
       CallFindCommonAncestor(old, new)
  \/ FindCommonAncestor
  \/ FindCommonAncestorAdvance

ForkSpec == ForkInit /\ [][ForkNext]_vars

\* A running call keeps running: the loop of FindCommonAncestor takes its
\* next step whenever it has one.  The caller need never call or cancel.
FairForkSpec ==
  /\ ForkSpec
  /\ WF_vars(FindCommonAncestor)
  /\ WF_vars(FindCommonAncestorAdvance)

PowerNext ==
  \/ CallTotal
  \/ \E mAddr \in Addresses : CallMiner(mAddr)
  \/ \E mAddr \in Addresses : HasPower(mAddr)

PowerSpec == PowerInit /\ [][PowerNext]_vars

\* ------------------------------------------------- reference definitions
\* The ancestors of t, as the walk from t down to its parentless root.
RECURSIVE ChainFrom(_)
ChainFrom(t) == IF t = UndefTipSet THEN <<>> ELSE <<t>> \o ChainFrom(parent[t])

CommonAncestors(a, b) == Ancestors(a) \cap Ancestors(b)

\* The tipsets of S of the greatest height.
Highest(S) == {t \in S : \A u \in S : height[u] <= height[t]}

FCACalled ==
  /\ op = "FindCommonAncestor"
  /\ args.old # UndefTipSet
  /\ args.new # UndefTipSet

FCAReturned == FCACalled /\ pc = "done"

\* ------------------------------------------------------------------ C1
\* C1: called on two non-complete iterators whose start tipsets share an
\* ancestor (themselves counted), FindCommonAncestor returns, and unless a
\* store read failed or the context was cancelled it returns without error
\* the one highest tipset reachable from both starts (the genesis when that
\* is all they share).  Whatever the starts, a tipset it returns is that
\* highest common ancestor: never a tipset off either chain, never one below
\* a higher shared tipset.
C1_ReturnsHighest ==
  FCAReturned =>
    /\ result.err = "nil" =>
         /\ Len(result.ts) = 1
         /\ result.ts[1] \in CommonAncestors(args.old, args.new)
         /\ Highest(CommonAncestors(args.old, args.new)) = {result.ts[1]}
    /\ CommonAncestors(args.old, args.new) # {} =>
         result.err \in {"nil", errStore, errContext}
    /\ result.err = errStore => failing # {}
    /\ result.err = errContext => cancelled

C1_HighestCommonAncestor ==
  /\ []C1_ReturnsHighest
  /\ (FCACalled /\ CommonAncestors(args.old, args.new) # {}) ~> (pc = "done")

\* C1 witness: a fork found across null rounds: the common ancestor is
\* neither start, it is not a root, and the two branches have tipsets at
\* different heights.
C1_Witness ==
  /\ FCAReturned
  /\ result.err = "nil"
  /\ result.ts[1] \notin {args.old, args.new}
  /\ parent[result.ts[1]] # UndefTipSet
  /\ height[args.old] # height[args.new]
  /\ height[args.new] > height[result.ts[1]] + 1

\* ------------------------------------------------------------------ C2
\* C2: FindCommonAncestor terminates on every pair of finite chains: called
\* on two non-complete iterators over a store whose parent links all
\* resolve, it eventually returns (a tipset or an error).
C2_Terminates ==
  (FCACalled /\ failing = {}) ~> (pc = "done")

\* ------------------------------------------------------------------ C3
\* C3: when the two start tipsets share no ancestor, FindCommonAncestor
\* returns errIterComplete and no tipset (the reads all resolving, and the
\* context not being cancelled), whatever the heights of the two roots.
C3_DisjointIsIterComplete ==
  (FCACalled /\ failing = {} /\ CommonAncestors(args.old, args.new) = {})
    ~> (pc = "done" /\ (cancelled \/ result = [ts |-> <<>>, err |-> errIterComplete]))

\* -------------------------------------- reference definitions, collectors
Min(a, b) == IF a < b THEN a ELSE b

Last(seq) == seq[Len(seq)]

\* The length of the longest prefix of seq whose tipsets all have a height
\* of at least mh.
RECURSIVE RunLength(_, _)
RunLength(seq, mh) ==
  IF seq = <<>> \/ height[Head(seq)] < mh THEN 0 ELSE 1 + RunLength(Tail(seq), mh)

\* The parent links below t all resolve.
Resolves(t) == failing \cap (Ancestors(t) \ {t}) = {}

\* E = max(0, childHeight - ancestorRoundsNeeded)
E ==
  IF args.childBH > args.ancestorRoundsNeeded
    THEN args.childBH - args.ancestorRoundsNeeded ELSE 0

GRACalled == op = "GetRecentAncestors"

GRAReturned == GRACalled /\ pc = "done"

C5_ContiguousSegment ==
  (GRAReturned /\ result.err = "nil") =>
    /\ Len(result.ts) >= 1
    /\ result.ts[1] = args.base
    /\ \A j \in 2..Len(result.ts) :
         /\ result.ts[j] = parent[result.ts[j - 1]]
         /\ height[result.ts[j]] < height[result.ts[j - 1]]

\* C5 witness: a result with both parts, two tipsets before the join and
\* one after it.
C5_Witness ==
  /\ GRAReturned
  /\ result.err = "nil"
  /\ Len(provingPeriodAncestors) >= 2
  /\ Len(ret) >= 1
  /\ Len(result.ts) = Len(provingPeriodAncestors) + Len(ret)

\* ------------------------------------------------------------------ C6
\* C6: a sequence CollectTipSetsOfHeightAtLeast returns is exactly the
\* maximal run of tipsets from the iterator's start whose heights are all
\* >= minHeight, in walk order; it is empty only when the start is below
\* minHeight or the iterator starts complete.
C6_MaximalRun ==
  (op = "CollectTipSetsOfHeightAtLeast" /\ pc = "done" /\ result.err = "nil") =>
    LET c == ChainFrom(args.start)
    IN result.ts = SubSeq(c, 1, RunLength(c, args.minHeight))

\* ------------------------------------------------------------------ C7
\* C7: whenever an advance of the iterator fails during
\* CollectTipSetsOfHeightAtLeast, the collector returns (nil, that error),
\* whatever state the failed advance leaves the iterator in.
C7_FailedAdvanceAborts ==
  [][(pc = "CollectTipSetsOfHeightAtLeast" /\ err # "nil"
      /\ pc' # "CollectTipSetsOfHeightAtLeast")
     => IF op = "GetRecentAncestors"
          THEN ret' = <<>> /\ err' = err
          ELSE result' = [ts |-> <<>>, err |-> err]]_vars

\* ------------------------------------------------------------------ C8
\* C8: for every n >= 0 and every start, on a chain whose parent links all
\* resolve (and with the context not cancelled), CollectAtMostNTipSets
\* returns without error the first min(n, tipsets from the start down to the
\* root) tipsets of the walk.
C8_AtMostN ==
  (/\ op = "CollectAtMostNTipSets"
   /\ pc = "done"
   /\ Resolves(args.start)
   /\ ~cancelled)
  => LET c == ChainFrom(args.start)
     IN result = [ts |-> SubSeq(c, 1, Min(args.n, Len(c))), err |-> "nil"]

\* C8 witness: exactly n = 2 tipsets are returned of a longer chain.
C8_Witness ==
  /\ op = "CollectAtMostNTipSets"
  /\ pc = "done"
  /\ ~cancelled
  /\ failing = {}
  /\ args.n = 2
  /\ Len(ChainFrom(args.start)) > 2
  /\ Len(result.ts) = 2

\* ------------------------------------------------------------------ C9
\* C9: GetRecentAncestors called with lookback = 0 returns the configuration
\* error and no tipsets at once, whatever its other arguments, the store and
\* the context: no iterator has been advanced and no GetTipSet call made.
C9_LookbackZeroRejected ==
  (GRACalled /\ args.lookback = 0) =>
    /\ pc = "done"
    /\ result = [ts |-> <<>>, err |-> errLookback]
    /\ reads = 0
    /\ nexts = 0

\* C9 witness: the call with lookback 0 on a base with ancestors, which a
\* traversal would have read.
C9_Witness ==
  /\ GRAReturned
  /\ args.lookback = 0
  /\ parent[args.base] # UndefTipSet
  /\ args.childBH > args.ancestorRoundsNeeded

\* ------------------------------------------------------------------ C10
\* The walk from base reaches the parentless root within the proving
\* window: every tipset from base down has a height >= E, the parent links
\* resolve and the context is not cancelled.
ReachesRootInWindow ==
  /\ GRAReturned
  /\ args.lookback > 0
  /\ \A t \in Ancestors(args.base) : height[t] >= E
  /\ Resolves(args.base)
  /\ ~cancelled

\* C10 as claimed: in that case GetRecentAncestors returns exactly the
\* proving-period ancestors, makes no lookback read, and the last element
\* is the parentless tipset, of height 0.
C10_LastHeightZero ==
  ReachesRootInWindow =>
    /\ result = [ts |-> ChainFrom(args.base), err |-> "nil"]
    /\ reads = Len(ChainFrom(args.base)) - 1
    /\ parent[Last(result.ts)] = UndefTipSet
    /\ height[Last(result.ts)] = 0

\* C10 as amended: the same, the last element being the parentless tipset
\* the walk ended on, whatever its height; the only reads are those of the
\* advances of step 1, one per parent link.
C10_RootWithinWindow ==
  ReachesRootInWindow =>
    /\ result = [ts |-> ChainFrom(args.base), err |-> "nil"]
    /\ reads = Len(ChainFrom(args.base)) - 1
    /\ parent[Last(result.ts)] = UndefTipSet
    /\ Len(ret) = Len(result.ts)

\* C10 witness: the root is reached after two advances, with lookback 2.
C10_Witness ==
  /\ ReachesRootInWindow
  /\ args.lookback = 2
  /\ Len(result.ts) = 3

\* ------------------------------------------------------------------ C11
\* C11: the height threshold GetRecentAncestors collects by is
\* max(0, childHeight - ancestorRoundsNeeded): 0 when ancestorRoundsNeeded
\* exceeds childHeight (neither negative nor wrapped), the exact difference
\* otherwise; with the threshold at 0 every tipset down to the parentless
\* root is in the proving window.
C11_ThresholdClamped ==
  (GRACalled /\ args.lookback > 0) =>
    /\ minHeight >= 0
    /\ minHeight = E
    /\ args.ancestorRoundsNeeded > args.childBH => minHeight = 0
    /\ args.ancestorRoundsNeeded <= args.childBH =>
         minHeight = args.childBH - args.ancestorRoundsNeeded
    /\ (pc = "done" /\ args.ancestorRoundsNeeded >= args.childBH
        /\ Resolves(args.base) /\ ~cancelled)
       => result = [ts |-> ChainFrom(args.base), err |-> "nil"]

\* C11 witness: ancestorRoundsNeeded exceeds childHeight and the whole
\* chain of four tipsets, null rounds included, is returned.
C11_Witness ==
  /\ GRAReturned
  /\ args.lookback > 0
  /\ args.ancestorRoundsNeeded > args.childBH
  /\ result.err = "nil"
  /\ Len(result.ts) = 4
  /\ height[result.ts[1]] > 3

\* ------------------------------------------------------------------ C12
\* C12: FindCommonAncestor called on two iterators whose current tipsets
\* are equal returns that tipset at the first test of the loop: neither
\* iterator is advanced and the store is not read, at every height, 0
\* included, and whether or not the context is cancelled.
C12_EqualStartsReturnAtOnce ==
  (FCACalled /\ args.old = args.new) =>
    /\ pc \in {"FindCommonAncestor", "done"}
    /\ oldIter = args.old
    /\ newIter = args.new
    /\ reads = 0
    /\ nexts = 0
    /\ pc = "done" => result = [ts |-> <<args.old>>, err |-> "nil"]

\* C12 witness: the call has returned the shared tipset of height 0.
C12_Witness ==
  /\ FCAReturned
  /\ args.old = args.new
  /\ height[args.old] = 0
  /\ result.ts = <<args.old>>

\* ------------------------------------------------------------------ C13
\* The keys an iterator started at `start` has asked the store for when it
\* stands at `pos` (UndefTipSet: complete): the strict ancestors of start
\* down to pos.
KeysRead(start, pos) ==
  IF pos = UndefTipSet
    THEN Ancestors(start) \ {start}
    ELSE (Ancestors(start) \ {start}) \ (Ancestors(pos) \ {pos})

\* C13: FindCommonAncestor returns errIterComplete only when one of the
\* iterators became complete before the positions coincided, and a store
\* read that fails during an advance makes it return the store's error:
\* a call that returned anything else (a tipset, errIterComplete, the
\* context's error) has read no failing key, and the store's error comes
\* with no tipset.
C13_StoreErrorNotIterComplete ==
  FCAReturned =>
    /\ result.err = errIterComplete =>
         /\ result.ts = <<>>
         /\ Complete(oldIter) \/ Complete(newIter)
         /\ oldIter # newIter
    /\ result.err = errStore => result.ts = <<>> /\ failing # {}
    /\ result.err # errStore =>
         failing \cap (KeysRead(args.old, oldIter)
                         \cup KeysRead(args.new, newIter)) = {}

\* C13 witness: the call returned the store's error after an advance that
\* had succeeded.
C13_Witness ==
  /\ FCAReturned
  /\ result = [ts |-> <<>>, err |-> errStore]
  /\ reads >= 2
  /\ nexts >= 2

\* ------------------------------------------------------------------ C14
\* C14: once the caller's context is cancelled during GetRecentAncestors,
\* no further ChainReader.GetTipSet read is performed.
C14_NoReadAfterCancel ==
  [][(GRACalled /\ cancelled) => reads' = reads]_vars

\* ------------------------------------------------------------------ C15
\* C15: HasPower returns true exactly when its call of Miner returned no
\* error and a byte count other than 0; it returns false when the actor
\* lookup fails and when the miner's power is 0, and the lookup's error is
\* not passed on to the caller, who gets the boolean alone.
C15_HasPowerIffMinerNonZero ==
  (op = "HasPower" /\ pc = "done") =>
    /\ view.hasPower \in BOOLEAN
    /\ view.hasPower <=> (view.err = "nil" /\ view.numBytes # 0)
    /\ actors[args.mAddr] = NoActor =>
         view.err = errActorStorage /\ ~view.hasPower
    /\ actors[args.mAddr] = 0 => view.err = "nil" /\ ~view.hasPower
    /\ actors[args.mAddr] \in 1..(UintModulus - 1) =>
         view.numBytes = actors[args.mAddr] /\ view.hasPower
    /\ result = NoResult

\* C15 witnesses: a miner whose power takes two bytes has power; a miner
\* of power 0 and one whose lookup failed have none.
C15_Witness ==
  /\ op = "HasPower" /\ pc = "done"
  /\ view.hasPower
  /\ view.numBytes = 2 * PowerUnit
  /\ args.mAddr = NumMiners
  /\ actors[1] = NoActor

\* ------------------------------------------------------------------ C16
\* C16: across the iterations of FindCommonAncestor the height of each
\* iterator never increases, and an iteration that finds the two heights
\* equal ends with both iterators strictly lower than they started or with
\* the call returning an error, at every height, 0 included.
C16_EqualHeightsBothLower ==
  [][(FCACalled /\ pc = "FindCommonAncestorAdvance" /\ pc' # pc) =>
      /\ pc' = "done" => result'.err # "nil"
      /\ pc' = "FindCommonAncestor" =>
           /\ height[newIter'] <= height[newIter]
           /\ height[oldIter'] <= height[oldIter]
           /\ height[oldIter] = height[newIter] =>
                /\ height[oldIter'] < height[oldIter]
                /\ height[newIter'] < height[newIter]]_vars

\* ------------------------------------------------------------------ C17
\* C17: an iteration of FindCommonAncestor that finds the two heights
\* different advances the higher iterator only.  The other keeps its
\* position; the advanced one stops on the first tipset of its chain whose
\* height is at most the other's height, and the call returns
\* errIterComplete if the chain holds no such tipset (or the error of a
\* failed or cancelled advance).
C17_OnlyHigherAdvances ==
  [][(/\ FCACalled
      /\ pc = "FindCommonAncestorAdvance"
      /\ pc' # pc
      /\ height[oldIter] # height[newIter])
     => LET oldHigher == height[oldIter] > height[newIter]
            from == IF oldHigher THEN oldIter ELSE newIter
            to == IF oldHigher THEN height[newIter] ELSE height[oldIter]
            moved == IF oldHigher THEN oldIter' ELSE newIter'
            below == {a \in Ancestors(from) : height[a] <= to}
        IN /\ IF oldHigher THEN newIter' = newIter ELSE oldIter' = oldIter
           /\ pc' = "FindCommonAncestor" => moved \in Highest(below)
           /\ pc' = "done" =>
                /\ result'.ts = <<>>
                /\ result'.err \in {errIterComplete, errStore, errContext}
                /\ result'.err = errIterComplete =>
                     below = {} /\ Complete(moved)
           /\ (~cancelled /\ Resolves(from)) =>
                IF below = {}
                  THEN pc' = "done" /\ result'.err = errIterComplete
                  ELSE pc' = "FindCommonAncestor"]_vars

\* C17 witness: the new iterator, the higher one, has been advanced twice,
\* over a tipset still above the old iterator and past the old iterator's
\* height, which is a null round on its chain; the old one has not moved.
C17_Witness ==
  /\ FCACalled
  /\ pc = "FindCommonAncestor"
  /\ nexts = 2
  /\ oldIter = args.old
  /\ newIter # args.new
  /\ newIter = parent[parent[args.new]]
  /\ height[args.new] > height[args.old]
  /\ height[newIter] < height[oldIter]

\* ------------------------------------------------------------------ C18
\* C18: for every base, childHeight, ancestorRoundsNeeded and lookback > 0,
\* GetRecentAncestors never indexes an empty sequence: the last element of
\* provingPeriodAncestors is read only when step 1 collected a tipset, also
\* when the height of base is below E.
C18_NeverIndexesEmpty ==
  (GRACalled /\ args.lookback > 0) =>
    /\ pc = "GetRecentAncestorsStep2" => Len(ret) > 0
    /\ pc = "done" => result.err # errIndexOutOfRange

\* ------------------------------------------------------------------ C19
\* C19: CollectAtMostNTipSets advances the iterator once after every tipset
\* it collects, the n-th included.  A call that returns k tipsets without
\* error has advanced the iterator exactly k times and leaves it on the
\* (k+1)-th tipset of the walk, or complete; when the store fails on the
\* parent of the n-th tipset the call returns (nil, that error), after n
\* advances, and GetRecentAncestors returns the same for the lookback
\* collection.
C19_AdvanceAfterEachCollected ==
  /\ (op = "CollectAtMostNTipSets" /\ pc = "done") =>
       LET c == ChainFrom(args.start)
           k == Len(result.ts)
       IN /\ result.err = "nil" =>
               /\ nexts = k
               /\ iterator = IF Len(c) > k THEN c[k + 1] ELSE UndefTipSet
          /\ (/\ ~cancelled
              /\ args.n >= 1
              /\ Len(c) > args.n
              /\ c[args.n + 1] \in failing)
             => result = [ts |-> <<>>, err |-> errStore] /\ nexts = args.n
  /\ (GRAReturned /\ args.lookback > 0 /\ ~cancelled
      /\ height[args.base] >= E) =>
       LET c == ChainFrom(args.base)
           k == RunLength(c, E) + args.lookback
       IN (Len(c) > k /\ c[k + 1] \in failing)
          => result = [ts |-> <<>>, err |-> errStore] /\ nexts = args.lookback

\* C19 witness: n = 2 tipsets were collected, the second advance failed in
\* the store, and the call returned the error alone.
C19_Witness ==
  /\ op = "CollectAtMostNTipSets"
  /\ pc = "done"
  /\ ~cancelled
  /\ args.n = 2
  /\ nexts = 2
  /\ ChainFrom(args.start)[3] \in failing
  /\ result = [ts |-> <<>>, err |-> errStore]

\* ------------------------------------------------------------------ C20
\* C20: called on two non-complete iterators, FindCommonAncestor finds both
\* iterators non-complete at the start of every iteration of its loop, so
\* Value() and Height() are never taken of a complete iterator; that an
\* iterator is exhausted is found inside iterToHeightOrLower only, which
\* ends the call.
C20_LoopHeadNonComplete ==
  FCACalled =>
    /\ pc \in {"FindCommonAncestor", "FindCommonAncestorAdvance"} =>
         ~Complete(oldIter) /\ ~Complete(newIter)
    /\ pc = "done" => result.err # errEmptyTipSet
    /\ (Complete(oldIter) \/ Complete(newIter)) =>
         pc = "done" /\ result.err \in {errIterComplete, errStore}

\* C20 witness: the loop is at its head again after both iterators were
\* advanced, onto two different tipsets.
C20_Witness ==
  /\ FCACalled
  /\ pc = "FindCommonAncestor"
  /\ oldIter # args.old
  /\ newIter # args.new
  /\ oldIter # newIter
  /\ nexts = 2
====
